---- MODULE Spec2Model ----
(***************************************************************************)
(* Model of the request package: the Request builder (request.go) and the *)
(* WithResult wrapper (result.go).                                         *)
(*                                                                         *)
(* Strings that the code inspects character by character (header keys)    *)
(* are sequences of one-character strings; header values and durations    *)
(* are atoms.  Byte streams are sequences of one-character strings.       *)
(***************************************************************************)
EXTENDS Integers, Sequences, FiniteSets, TLC

VARIABLES
    header,        \* Request.header of each builder: canonical key -> values
    timeout,       \* Request.timeout of each builder: <<>> (nil) or <<d>>
    body,          \* Request.body of each builder: 0 (nil) or a stream
    wr,            \* the WithResult wrapper each caller holds; req 0 is nil
    streams,       \* the byte streams made so far: readers and pipes
    clientTimeout, \* Timeout field of the http.Client attached to the context
    transport,     \* the Transport of that client
    pc,            \* where each caller is in its Do call
    viaWr,         \* the call entered through WithResult.Do
    sendTimeout,   \* the Timeout the client read when it took the request
    cret,          \* what c.Do returned to Request.Do: response and error
    respBody,      \* resp.Body: 0 or a stream
    data,          \* the bytes io.ReadAll has read so far
    rerr,          \* the error io.ReadAll returned: Pending while it has not
    target,        \* the value the decode function stored in v
    ret,           \* what the Do call returned to the caller
    hlog,          \* history: the configuration calls made on each builder
    twrites,       \* history: the overrides written to the client's Timeout
    decodeCalls,   \* history: how often wr.unmarshal was invoked
    readEnd,       \* history: the error of the last Read of io.ReadAll
    sent,          \* history: the request bodies handed to the Transport
    rtErr,         \* the failure of the round trip that c.Do has yet to return
    deferred,      \* the response bodies each caller has yet to close
    cancelled      \* the context of the requests is cancelled

hvars == <<header, hlog, wr>>
bvars == <<timeout, body>>
cvars == <<clientTimeout, transport, twrites, cancelled>>
dvars == <<pc, viaWr, sendTimeout, cret, respBody, data, rerr, target, ret,
           decodeCalls, readEnd, sent, rtErr, deferred>>
vars == <<header, timeout, body, wr, streams, clientTimeout, transport, pc,
          viaWr, sendTimeout, cret, respBody, data, rerr, target, ret, hlog,
          twrites, decodeCalls, readEnd, sent, rtErr, deferred, cancelled>>

\* The callers; caller b owns builder b.
Builders == {1, 2}

\* How many configuration calls a caller makes on one builder.
MaxCalls == 3

Nil == "nil"

-----------------------------------------------------------------------------
(* Header keys and their canonical form.                                   *)

\* The letters, in the order of their codes.
Lo == <<"a", "b", "c", "d", "e", "f", "g", "h", "i", "j", "k", "l", "m",
       "n", "o", "p", "q", "r", "s", "t", "u", "v", "w", "x", "y", "z">>
Up == <<"A", "B", "C", "D", "E", "F", "G", "H", "I", "J", "K", "L", "M",
       "N", "O", "P", "Q", "R", "S", "T", "U", "V", "W", "X", "Y", "Z">>

IsLower(c) == \E i \in 1..Len(Lo) : Lo[i] = c
IsUpper(c) == \E i \in 1..Len(Up) : Up[i] = c
ToUpper(c) == IF IsLower(c) THEN Up[CHOOSE i \in 1..Len(Lo) : Lo[i] = c] ELSE c
ToLower(c) == IF IsUpper(c) THEN Lo[CHOOSE i \in 1..Len(Up) : Up[i] = c] ELSE c

\* A byte allowed in a header field name: letters and "-" here, not " ".
validHeaderFieldByte(c) == IsLower(c) \/ IsUpper(c) \/ c = "-"

\* textproto.CanonicalMIMEHeaderKey, the canonical form that Header.Set,
\* Header.Add and Header.Get give a key: a key holding an invalid byte is
\* returned as it is; otherwise the first letter and every letter that
\* follows a hyphen are upper-cased and the rest lower-cased.
CanonicalMIMEHeaderKey(s) ==
    IF \E i \in 1..Len(s) : ~validHeaderFieldByte(s[i])
    THEN s
    ELSE [i \in 1..Len(s) |->
            IF i = 1 \/ s[i-1] = "-" THEN ToUpper(s[i]) ELSE ToLower(s[i])]

KAccept == <<"A", "c", "c", "e", "p", "t">>
KAcceptLower == <<"a", "c", "c", "e", "p", "t">>
KContentType == <<"C", "o", "n", "t", "e", "n", "t", "-", "T", "y", "p", "e">>
KContentTypeLower ==
    <<"c", "o", "n", "t", "e", "n", "t", "-", "t", "y", "p", "e">>
KAuthorization ==
    <<"A", "u", "t", "h", "o", "r", "i", "z", "a", "t", "i", "o", "n">>
KTrace == <<"a", "-", "c">>
KSpaced == <<"a", " ", "c">>

\* The keys callers pass.
Keys == {KAccept, KAcceptLower, KTrace, KSpaced}

\* The values callers pass.
Vals == {"", "x", "y"}

jsonMIME == "application/json"
xmlMIME == "application/xml"

-----------------------------------------------------------------------------
(* http.Header: a map from canonical key to the list of its values.        *)

EmptyHeader == [k \in {} |-> <<>>]

\* Header.Set
HeaderSetAppend(h, key, value) ==
    LET ck == CanonicalMIMEHeaderKey(key)
    IN [k \in DOMAIN h \cup {ck} |->
          IF k = ck THEN (IF k \in DOMAIN h THEN Append(h[k], value) ELSE <<value>>)
          ELSE h[k]]
HeaderSet(h, key, value) ==
    LET ck == CanonicalMIMEHeaderKey(key)
    IN [k \in DOMAIN h \cup {ck} |-> IF k = ck THEN <<value>> ELSE h[k]]

\* Header.Add
HeaderAddFront(h, key, value) ==
    LET ck == CanonicalMIMEHeaderKey(key)
    IN [k \in DOMAIN h \cup {ck} |->
          IF k = ck
          THEN (IF k \in DOMAIN h THEN <<value>> \o h[k] ELSE <<value>>)
          ELSE h[k]]
HeaderAdd(h, key, value) ==
    LET ck == CanonicalMIMEHeaderKey(key)
    IN [k \in DOMAIN h \cup {ck} |->
          IF k = ck
          THEN (IF k \in DOMAIN h THEN Append(h[k], value) ELSE <<value>>)
          ELSE h[k]]

\* Header.Values
HeaderValues(h, key) ==
    LET ck == CanonicalMIMEHeaderKey(key)
    IN IF ck \in DOMAIN h THEN h[ck] ELSE <<>>

\* Header.Get: the first value of the key, "" when it has none.
HeaderGet(h, key) ==
    LET v == HeaderValues(h, key)
    IN IF Len(v) = 0 THEN "" ELSE v[1]

-----------------------------------------------------------------------------
(* The configuration calls of a builder.                                   *)

NoWrapper == [made |-> FALSE, req |-> 0, unmarshal |-> "none"]

\* The history of a builder: one entry for each configuration call, with
\* the header primitive the call made: Set ("set"), Add ("add") or none.
LogSet(b, name, key, value) ==
    hlog' = [hlog EXCEPT ![b] =
        Append(@, [call |-> name, op |-> "set", key |-> key, val |-> value])]
LogAdd(b, name, key, value) ==
    hlog' = [hlog EXCEPT ![b] =
        Append(@, [call |-> name, op |-> "add", key |-> key, val |-> value])]
LogNop(b, name) ==
    hlog' = [hlog EXCEPT ![b] =
        Append(@, [call |-> name, op |-> "nop", key |-> <<>>, val |-> ""])]

\* A builder has one owner, which configures it between its Do calls.
CanConfigure(b) == pc[b] = "cfg" /\ Len(hlog[b]) < MaxCalls

\* Request.WithHeader
WithHeader(b) ==
    \E key \in Keys, value \in Vals :
        /\ CanConfigure(b)
        /\ header' = [header EXCEPT ![b] = HeaderSet(@, key, value)]
        /\ LogSet(b, "WithHeader", key, value)
        /\ UNCHANGED <<wr, bvars, streams, cvars, dvars>>

\* Request.WithMultiValuedHeader, the key drawn from K.
WithMultiValuedHeaderIn(b, K) ==
    \E key \in K, value \in Vals :
        /\ CanConfigure(b)
        /\ header' = [header EXCEPT ![b] = HeaderAdd(@, key, value)]
        /\ LogAdd(b, "WithMultiValuedHeader", key, value)
        /\ UNCHANGED <<wr, bvars, streams, cvars, dvars>>

\* Request.WithMultiValuedHeader
WithMultiValuedHeader(b) == WithMultiValuedHeaderIn(b, Keys)

\* Request.WithContentType
WithContentType(b) ==
    \E s \in Vals :
        /\ CanConfigure(b)
        /\ header' = [header EXCEPT ![b] = HeaderSet(@, KContentType, s)]
        /\ LogSet(b, "WithContentType", KContentType, s)
        /\ UNCHANGED <<wr, bvars, streams, cvars, dvars>>

\* Request.WithAccept
WithAccept(b) ==
    \E s \in Vals :
        /\ CanConfigure(b)
        /\ header' = [header EXCEPT ![b] = HeaderSet(@, KAccept, s)]
        /\ LogSet(b, "WithAccept", KAccept, s)
        /\ UNCHANGED <<wr, bvars, streams, cvars, dvars>>

\* The byte of a character: letters, digits and ":".
Digits == <<"0", "1", "2", "3", "4", "5", "6", "7", "8", "9">>
Ord(c) ==
    IF IsLower(c) THEN 96 + (CHOOSE i \in 1..Len(Lo) : Lo[i] = c)
    ELSE IF IsUpper(c) THEN 64 + (CHOOSE i \in 1..Len(Up) : Up[i] = c)
    ELSE IF c = ":" THEN 58
    ELSE 47 + (CHOOSE i \in 1..Len(Digits) : Digits[i] = c)

\* The alphabet of base64.StdEncoding.
encodeStd == Up \o Lo \o Digits \o <<"+", "/">>

\* base64.StdEncoding.EncodeToString: each group of three bytes becomes
\* four characters of six bits each; a last group of one or two bytes is
\* padded with "=".
RECURSIVE EncodeToString(_)
EncodeToString(src) ==
    LET n == Len(src)
        v == Ord(src[1]) * 65536
             + (IF n > 1 THEN Ord(src[2]) * 256 ELSE 0)
             + (IF n > 2 THEN Ord(src[3]) ELSE 0)
        c1 == encodeStd[(v \div 262144) + 1]
        c2 == encodeStd[((v \div 4096) % 64) + 1]
        c3 == encodeStd[((v \div 64) % 64) + 1]
        c4 == encodeStd[(v % 64) + 1]
    IN IF n = 0 THEN ""
       ELSE IF n = 1 THEN c1 \o c2 \o "=="
       ELSE IF n = 2 THEN c1 \o c2 \o c3 \o "="
       ELSE c1 \o c2 \o c3 \o c4 \o EncodeToString(SubSeq(src, 4, n))

\* The credentials and tokens callers pass.
Username == <<"u", "s", "e", "r", "n", "a", "m", "e">>
Password == <<"p", "a", "s", "s", "w", "o", "r", "d">>
Usernames == {<<"u">>, Username}
Passwords == {<<>>, Password}
Tokens == {"", "t"}

\* Request.WithBasicAuth
WithBasicAuth(b) ==
    \E username \in Usernames, password \in Passwords :
        LET auth == username \o <<":">> \o password
            value == "Basic " \o EncodeToString(auth)
        IN /\ CanConfigure(b)
           /\ header' = [header EXCEPT ![b] = HeaderSet(@, KAuthorization, value)]
           /\ LogSet(b, "WithBasicAuth", KAuthorization, value)
           /\ UNCHANGED <<wr, bvars, streams, cvars, dvars>>

\* Request.WithBearerAuthentication
WithBearerAuthentication(b) ==
    \E token \in Tokens :
        LET value == "Bearer " \o token
        IN /\ CanConfigure(b)
           /\ header' = [header EXCEPT ![b] = HeaderSet(@, KAuthorization, value)]
           /\ LogSet(b, "WithBearerAuthentication", KAuthorization, value)
           /\ UNCHANGED <<wr, bvars, streams, cvars, dvars>>

\* Request.WithResult
WithResult(b) ==
    /\ CanConfigure(b)
    /\ wr' = [wr EXCEPT ![b] = [made |-> TRUE, req |-> b, unmarshal |-> "none"]]
    /\ LogNop(b, "WithResult")
    /\ UNCHANGED <<header, bvars, streams, cvars, dvars>>

\* The header step shared by WithJSONResult and WithXMLResult: Accept is set
\* to the MIME type when Header.Get("Accept") yields the empty string.
AcceptDefaulted(b, name, mime) ==
    IF HeaderGet(header[b], KAccept) = ""
    THEN /\ header' = [header EXCEPT ![b] = HeaderSet(@, KAccept, mime)]
         /\ LogSet(b, name, KAccept, mime)
    ELSE /\ UNCHANGED header
         /\ LogNop(b, name)

\* Request.WithJSONResult
WithJSONResult(b) ==
    /\ CanConfigure(b)
    /\ AcceptDefaulted(b, "WithJSONResult", jsonMIME)
    /\ wr' = [wr EXCEPT ![b] = [made |-> TRUE, req |-> b, unmarshal |-> "json"]]
    /\ UNCHANGED <<bvars, streams, cvars, dvars>>

\* Request.WithXMLResult
WithXMLResult(b) ==
    /\ CanConfigure(b)
    /\ AcceptDefaulted(b, "WithXMLResult", xmlMIME)
    /\ wr' = [wr EXCEPT ![b] = [made |-> TRUE, req |-> b, unmarshal |-> "xml"]]
    /\ UNCHANGED <<bvars, streams, cvars, dvars>>

-----------------------------------------------------------------------------
(* Errors: NoErr is nil; a wrapped error is the wrapper's text followed by *)
(* the error it wraps.                                                     *)

NoErr == <<>>
EOF == <<"EOF">>
ErrClosedPipe == <<"io: read/write on closed pipe">>
ErrUnsupported == <<"unsupported type">>
ErrSyntax == <<"syntax error">>
ErrUnexpectedEnd == <<"unexpected end of JSON input">>
ErrBodyRead == <<"unexpected EOF">>
ErrTransport == <<"connection refused">>
ErrConstruct == <<"invalid method or URL">>
ErrCanceled == <<"context canceled">>
ErrMissing == <<"request: missing request">>
\* io.ReadAll has not returned yet.
Pending == <<"pending">>
ErrReadClosed == <<"http: read on closed response body">>

\* fmt.Errorf("<text>: %w", err)
Wrap(text, err) == <<text>> \o err
\* The error at the end of the chain of wrapped errors.
Cause(err) == IF err = NoErr THEN NoErr ELSE <<err[Len(err)]>>

-----------------------------------------------------------------------------
(* The values callers encode, and the codecs.  "a" and "b" are payloads    *)
(* both codecs accept; "chan" is a value no codec can encode; "deep" is a  *)
(* large value with an unsupported field far inside.                       *)

GoodVals == {"a", "b"}
BodyVals == {"a", "b", "chan", "deep"}

\* json.Marshal
MarshalJSON(v) ==
    IF v \in GoodVals
    THEN [bytes |-> <<"{", v, "}">>, err |-> NoErr]
    ELSE [bytes |-> <<>>, err |-> ErrUnsupported]

\* json.NewEncoder(pw).Encode(v): the value is marshalled to a buffer, a
\* newline is appended and the buffer is written in one Write; nothing is
\* written when marshalling fails.
JSONEncode(v) ==
    LET m == MarshalJSON(v)
    IN [chunks |-> IF m.err = NoErr THEN <<m.bytes \o <<"\n">>>> ELSE <<>>,
        err |-> m.err]

\* xml.NewEncoder(pw).Encode(v): the encoder writes through a buffered
\* writer that it flushes at the end; a value that overflows the buffer
\* before its unsupported field is met is written in part before the error.
XMLEncode(v) ==
    IF v \in GoodVals THEN [chunks |-> <<<<"<", v, ">">>>>, err |-> NoErr]
    ELSE IF v = "deep" THEN [chunks |-> <<<<"<">>>>, err |-> ErrUnsupported]
    ELSE [chunks |-> <<>>, err |-> ErrUnsupported]

IsSpace(c) == c \in {"\n", " "}

RECURSIVE TrimLeft(_)
TrimLeft(s) ==
    IF s # <<>> /\ IsSpace(Head(s)) THEN TrimLeft(Tail(s)) ELSE s

RECURSIVE TrimRight(_)
TrimRight(s) ==
    IF s # <<>> /\ IsSpace(s[Len(s)])
    THEN TrimRight(SubSeq(s, 1, Len(s) - 1))
    ELSE s

\* strings.TrimSpace
TrimSpace(s) == TrimRight(TrimLeft(s))

\* json.Unmarshal(data, v): white space around the value is skipped; input
\* that ends before the value does, the empty input included, is an
\* unexpected end, any other malformed input a syntax error.
UnmarshalJSON(bytes) ==
    LET s == TrimSpace(bytes)
    IN IF Len(s) = 3 /\ s[1] = "{" /\ s[3] = "}" /\ s[2] \in GoodVals
       THEN [val |-> s[2], err |-> NoErr]
       ELSE IF \/ s = <<>>
               \/ s = <<"{">>
               \/ Len(s) = 2 /\ s[1] = "{" /\ s[2] \in GoodVals
       THEN [val |-> Nil, err |-> ErrUnexpectedEnd]
       ELSE [val |-> Nil, err |-> ErrSyntax]

\* xml.Unmarshal(data, v): input in which no element starts, the empty
\* input included, ends with io.EOF; a malformed element is a syntax error.
UnmarshalXML(bytes) ==
    LET s == TrimSpace(bytes)
    IN IF Len(s) = 3 /\ s[1] = "<" /\ s[3] = ">" /\ s[2] \in GoodVals
       THEN [val |-> s[2], err |-> NoErr]
       ELSE IF s = <<>> \/ s[1] # "<"
       THEN [val |-> Nil, err |-> EOF]
       ELSE [val |-> Nil, err |-> ErrSyntax]

\* The unmarshal closure of a wrapper, applied to the bytes read.
Unmarshal(kind, bytes) ==
    LET u == IF kind = "json" THEN UnmarshalJSON(bytes) ELSE UnmarshalXML(bytes)
        text == IF kind = "json" THEN "request: unmarshal JSON"
                ELSE "request: unmarshal XML"
    IN [val |-> u.val, err |-> IF u.err = NoErr THEN NoErr ELSE Wrap(text, u.err)]

-----------------------------------------------------------------------------
(* Byte streams.  A "static" stream is a reader over fixed content; a     *)
(* "pipe" is an io.Pipe with the encoder task that writes to it.           *)
(*   codec    pipe: the encoder of the task, "json" or "xml"               *)
(*   val      pipe: the value the encoder task was given                   *)
(*   rest     the unread bytes: of the content, or of the pending Write    *)
(*   fail     static: reading past the content fails instead of ending     *)
(*   nop      static: Close does nothing (io.NopCloser over a reader)      *)
(*   closes   how often Close was called on the reading side               *)
(*   closing  a Transport that failed has yet to close the stream          *)
(*   writing  pipe: a Write call is pending                                *)
(*   chunks   pipe: the writes the encoder has yet to make                 *)
(*   perr     pipe: the error Encode returns when it has made them         *)
(*   werr     pipe: NoErr, or the error CloseWithError stored              *)
(*   ppc      pipe: "run" while the encoder task lives, then "done"        *)
(*   got      history: the bytes the readers have taken                    *)
(*   nw       history: how many Write calls returned without error         *)

\* The most bytes one Read call takes.
MaxRead == 2

StaticStream(content, fails, nopCloser) ==
    [kind |-> "static", codec |-> "none", val |-> Nil, rest |-> content,
     fail |-> fails, nop |-> nopCloser, closes |-> 0, closing |-> FALSE,
     writing |-> FALSE, chunks |-> <<>>, perr |-> NoErr, werr |-> NoErr,
     ppc |-> "none", got |-> <<>>, nw |-> 0]

\* io.Pipe() and the go statement that starts the encoder task.
PipeStream(c, v, plan) ==
    [kind |-> "pipe", codec |-> c, val |-> v, rest |-> <<>>, fail |-> FALSE,
     nop |-> FALSE, closes |-> 0, closing |-> FALSE,
     writing |-> FALSE, chunks |-> plan.chunks, perr |-> plan.err,
     werr |-> NoErr,
     ppc |-> "run", got |-> <<>>, nw |-> 0]

\* What a Read of at most n bytes on stream st returns: the bytes, the
\* error, and whether the call blocks instead of returning.
\*   PipeReader.Read: a closed reader fails; a pipe the writer closed yields
\*   the writer's error; bytes of a pending Write are taken; else it blocks.
\*   A response body of the Transport fails once closed; a reader behind
\*   io.NopCloser reads on as if it had not been closed.
StreamReadEOFOnError(st, n) ==
    IF st.closes > 0 /\ ~st.nop
    THEN [bytes |-> <<>>,
          err |-> IF st.kind = "pipe" THEN ErrClosedPipe ELSE ErrReadClosed,
          blocks |-> FALSE]
    ELSE IF st.kind = "static"
    THEN IF st.rest # <<>>
         THEN [bytes |-> SubSeq(st.rest, 1, IF n < Len(st.rest) THEN n ELSE Len(st.rest)),
               err |-> NoErr, blocks |-> FALSE]
         ELSE [bytes |-> <<>>, err |-> EOF, blocks |-> FALSE]
    ELSE IF st.werr # NoErr
         THEN [bytes |-> <<>>, err |-> EOF, blocks |-> FALSE]
    ELSE IF st.writing /\ st.rest # <<>>
         THEN [bytes |-> SubSeq(st.rest, 1, IF n < Len(st.rest) THEN n ELSE Len(st.rest)),
               err |-> NoErr, blocks |-> FALSE]
    ELSE [bytes |-> <<>>, err |-> NoErr, blocks |-> TRUE]
StreamRead(st, n) ==
    IF st.closes > 0 /\ ~st.nop
    THEN [bytes |-> <<>>,
          err |-> IF st.kind = "pipe" THEN ErrClosedPipe ELSE ErrReadClosed,
          blocks |-> FALSE]
    ELSE IF st.kind = "static"
    THEN IF st.rest # <<>>
         THEN [bytes |-> SubSeq(st.rest, 1, IF n < Len(st.rest) THEN n ELSE Len(st.rest)),
               err |-> NoErr, blocks |-> FALSE]
         ELSE [bytes |-> <<>>, err |-> IF st.fail THEN ErrBodyRead ELSE EOF,
               blocks |-> FALSE]
    ELSE IF st.werr # NoErr
         THEN [bytes |-> <<>>, err |-> st.werr, blocks |-> FALSE]
    ELSE IF st.writing /\ st.rest # <<>>
         THEN [bytes |-> SubSeq(st.rest, 1, IF n < Len(st.rest) THEN n ELSE Len(st.rest)),
               err |-> NoErr, blocks |-> FALSE]
    ELSE [bytes |-> <<>>, err |-> NoErr, blocks |-> TRUE]

\* The stream after a Read took k bytes.
ConsumedWholeWrite(st, k) ==
    [st EXCEPT !.rest = <<>>, !.got = @ \o SubSeq(st.rest, 1, k)]
Consumed(st, k) ==
    [st EXCEPT !.rest = SubSeq(@, k + 1, Len(@)),
               !.got = @ \o SubSeq(st.rest, 1, k)]

\* What the encoder of a pipe does with its value: its writes and its error.
Plan(st) == IF st.codec = "json" THEN JSONEncode(st.val) ELSE XMLEncode(st.val)

\* A stream that a Transport is left to close.
ToClose(st) == [st EXCEPT !.closing = TRUE]

\* Close on the reading side.
ClosedRewinds(st) ==
    IF st.kind = "pipe" /\ st.werr # NoErr
    THEN [st EXCEPT !.chunks = Plan(st).chunks, !.werr = NoErr, !.ppc = "run",
                    !.nw = 0]
    ELSE [st EXCEPT !.closes = @ + 1]
Closed(st) == [st EXCEPT !.closes = @ + 1]

\* PipeWriter.CloseWithError(err): a nil error is stored as EOF.
CloseWithError(st, err) ==
    [st EXCEPT !.werr = IF err = NoErr THEN EOF ELSE err,
               !.ppc = "done", !.writing = FALSE, !.rest = <<>>]

Pipes == {i \in 1..Len(streams) : streams[i].kind = "pipe"}

\* The encoder task calls pw.Write with its next chunk.
ProducerWrite(i) ==
    /\ streams[i].ppc = "run"
    /\ ~streams[i].writing
    /\ streams[i].chunks # <<>>
    /\ streams[i].closes = 0
    /\ streams' = [streams EXCEPT ![i] =
           [@ EXCEPT !.writing = TRUE, !.rest = Head(streams[i].chunks),
                     !.chunks = Tail(streams[i].chunks)]]
    /\ UNCHANGED <<hvars, bvars, cvars, dvars>>

\* The pending Write returns once the reader has taken all of its bytes.
ProducerWriteReturnsBuffered(i) ==
    /\ streams[i].ppc = "run"
    /\ streams[i].writing
    /\ streams' = [streams EXCEPT ![i] =
           [@ EXCEPT !.writing = FALSE, !.nw = @ + 1]]
    /\ UNCHANGED <<hvars, bvars, cvars, dvars>>
ProducerWriteReturns(i) ==
    /\ streams[i].ppc = "run"
    /\ streams[i].writing
    /\ streams[i].rest = <<>>
    /\ streams' = [streams EXCEPT ![i] =
           [@ EXCEPT !.writing = FALSE, !.nw = @ + 1]]
    /\ UNCHANGED <<hvars, bvars, cvars, dvars>>

\* A Write on a pipe whose reader was closed fails; Encode returns that
\* error and the task ends in CloseWithError.
ProducerWriteFails(i) ==
    /\ streams[i].ppc = "run"
    /\ streams[i].closes > 0
    /\ \/ streams[i].writing /\ streams[i].rest # <<>>
       \/ ~streams[i].writing /\ streams[i].chunks # <<>>
    /\ streams' = [streams EXCEPT ![i] = CloseWithError(@, ErrClosedPipe)]
    /\ UNCHANGED <<hvars, bvars, cvars, dvars>>

\* Encode has returned: pw.CloseWithError(err) ends the task.
ProducerClose(i) ==
    /\ streams[i].ppc = "run"
    /\ ~streams[i].writing
    /\ streams[i].chunks = <<>>
    /\ streams' = [streams EXCEPT ![i] = CloseWithError(@, @.perr)]
    /\ UNCHANGED <<hvars, bvars, cvars, dvars>>

-----------------------------------------------------------------------------
(* The other configuration calls.                                          *)

\* The overrides callers pass to WithTimeout.
Overrides == {10, 20}

\* The contents of the readers callers pass to WithBody.
ReaderContents == {<<"r">>}

\* Request.WithTimeout
WithTimeout(b) ==
    \E d \in Overrides :
        /\ CanConfigure(b)
        /\ timeout' = [timeout EXCEPT ![b] = <<d>>]
        /\ LogNop(b, "WithTimeout")
        /\ UNCHANGED <<header, wr, body, streams, cvars, dvars>>

\* Request.WithBody
WithBody(b) ==
    \E content \in ReaderContents :
        /\ CanConfigure(b)
        /\ streams' = Append(streams, StaticStream(content, FALSE, TRUE))
        /\ body' = [body EXCEPT ![b] = Len(streams) + 1]
        /\ LogNop(b, "WithBody")
        /\ UNCHANGED <<header, wr, timeout, cvars, dvars>>

\* Request.WithJSONBody
WithJSONBodyAdds(b) ==
    \E v \in BodyVals :
        /\ CanConfigure(b)
        /\ streams' = Append(streams, PipeStream("json", v, JSONEncode(v)))
        /\ body' = [body EXCEPT ![b] = Len(streams) + 1]
        /\ header' = [header EXCEPT ![b] = HeaderAdd(@, KContentType, jsonMIME)]
        /\ LogSet(b, "WithJSONBody", KContentType, jsonMIME)
        /\ UNCHANGED <<wr, timeout, cvars, dvars>>
WithJSONBody(b) ==
    \E v \in BodyVals :
        /\ CanConfigure(b)
        /\ streams' = Append(streams, PipeStream("json", v, JSONEncode(v)))
        /\ body' = [body EXCEPT ![b] = Len(streams) + 1]
        /\ header' = [header EXCEPT ![b] = HeaderSet(@, KContentType, jsonMIME)]
        /\ LogSet(b, "WithJSONBody", KContentType, jsonMIME)
        /\ UNCHANGED <<wr, timeout, cvars, dvars>>

\* Request.WithXMLBody
WithXMLBody(b) ==
    \E v \in BodyVals :
        /\ CanConfigure(b)
        /\ streams' = Append(streams, PipeStream("xml", v, XMLEncode(v)))
        /\ body' = [body EXCEPT ![b] = Len(streams) + 1]
        /\ header' = [header EXCEPT ![b] = HeaderSet(@, KContentType, xmlMIME)]
        /\ LogSet(b, "WithXMLBody", KContentType, xmlMIME)
        /\ UNCHANGED <<wr, timeout, cvars, dvars>>

\* The zero value of WithResult: a wrapper with no builder.
ZeroWithResult(b) ==
    /\ CanConfigure(b)
    /\ ~wr[b].made
    /\ wr' = [wr EXCEPT ![b] = [made |-> TRUE, req |-> 0, unmarshal |-> "none"]]
    /\ LogNop(b, "ZeroWithResult")
    /\ UNCHANGED <<header, bvars, streams, cvars, dvars>>

-----------------------------------------------------------------------------
(* Request.Do and WithResult.Do.  A call passes through                    *)
(*   "cfg"       no call in progress                                       *)
(*   "built"     http.NewRequestWithContext returned the request           *)
(*   "resolved"  the client is resolved and the override, if any, written  *)
(*   "rt"        c.Do took the request; the transport has it               *)
(*   "respond"   the transport has sent the request body                   *)
(*   "failing"   the round trip has failed; c.Do has yet to return         *)
(*   "closed"    the caller of Request.Do has closed the response body     *)
(*   "exit"      the caller's function has returned: deferred calls run    *)
(*   "read"      WithResult.Do reads the response body                     *)
(*   "decode"    io.ReadAll returned without error                         *)
(*   "done"      the call returned                                         *)

\* The Timeout of the client of the example.
ClientOwnTimeout == 5

\* What the client's Transport does with a request.
\*   "fail"    a stub that fails
\*   "echo"    the stub of the examples: the request body is the response body
\*   "mock"    the stub of the README: a fixed response
\*   "server"  it sends the request, body included, and receives a response
Transports == {"fail", "echo", "mock", "server"}

\* The response bodies a server sends.
ResponseBodies == {<<"{", "a", "}">>, <<"{", "a">>}

NoRet == [resp |-> FALSE, result |-> FALSE, raw |-> <<>>, err |-> NoErr]

\* clientFromContext(ctx): the client attached to the context.
clientFromContext == clientTimeout

\* Request.Do returns to its caller: to the caller of the builder, or to
\* WithResult.Do, which returns the error if there is one and otherwise
\* goes on to read the body.
RequestDoReturnsWrapped(b, hasResp, e) ==
    /\ cret' = [cret EXCEPT ![b] = [resp |-> hasResp, err |-> e]]
    /\ IF viaWr[b] /\ e = NoErr
       THEN /\ pc' = [pc EXCEPT ![b] = "read"]
            /\ UNCHANGED ret
       ELSE /\ pc' = [pc EXCEPT ![b] = "done"]
            /\ ret' = [ret EXCEPT ![b] =
                   [resp |-> hasResp /\ ~viaWr[b], result |-> FALSE, raw |-> <<>>,
                    err |-> IF viaWr[b] THEN Wrap("request: do", e) ELSE e]]
RequestDoReturns(b, hasResp, e) ==
    /\ cret' = [cret EXCEPT ![b] = [resp |-> hasResp, err |-> e]]
    /\ IF viaWr[b] /\ e = NoErr
       THEN /\ pc' = [pc EXCEPT ![b] = "read"]
            /\ UNCHANGED ret
       ELSE /\ pc' = [pc EXCEPT ![b] = "done"]
            /\ ret' = [ret EXCEPT ![b] =
                   [resp |-> hasResp /\ ~viaWr[b], result |-> FALSE, raw |-> <<>>,
                    err |-> e]]

\* The start of Request.Do: http.NewRequestWithContext, which fails on an
\* invalid method or URL.
NewRequest(b, via, valid) ==
    /\ viaWr' = [viaWr EXCEPT ![b] = via]
    /\ IF valid
       THEN /\ pc' = [pc EXCEPT ![b] = "built"]
            /\ UNCHANGED ret
       ELSE /\ pc' = [pc EXCEPT ![b] = "done"]
            /\ ret' = [ret EXCEPT ![b] = [NoRet EXCEPT !.err = ErrConstruct]]

\* Request.Do, called on the builder.
RequestDoResolvesFirst(b) ==
    \E valid \in BOOLEAN :
        /\ pc[b] = "cfg"
        /\ NewRequest(b, FALSE, valid)
        /\ IF timeout[b] # <<>>
           THEN /\ clientTimeout' = timeout[b][1]
                /\ twrites' = Append(twrites, timeout[b][1])
           ELSE UNCHANGED <<clientTimeout, twrites>>
        /\ UNCHANGED <<hvars, bvars, streams, transport, cancelled, sendTimeout,
                       cret, respBody, data, rerr, target, decodeCalls, readEnd,
                       sent, rtErr, deferred>>
RequestDo(b) ==
    \E valid \in BOOLEAN :
        /\ pc[b] = "cfg"
        /\ NewRequest(b, FALSE, valid)
        /\ UNCHANGED <<hvars, bvars, streams, cvars, sendTimeout, cret, respBody,
                       data, rerr, target, decodeCalls, readEnd, sent,
                       rtErr, deferred>>

\* WithResult.Do: fails at once without a builder, else calls Request.Do.
WithResultDoUnchecked(b) ==
    \E valid \in BOOLEAN :
        /\ pc[b] = "cfg"
        /\ wr[b].made
        /\ NewRequest(b, TRUE, valid)
        /\ UNCHANGED <<hvars, bvars, streams, cvars, sendTimeout, cret, respBody,
                       data, rerr, target, decodeCalls, readEnd, sent,
                       rtErr, deferred>>
WithResultDo(b) ==
    \E valid \in BOOLEAN :
        /\ pc[b] = "cfg"
        /\ wr[b].made
        /\ IF wr[b].req = 0
           THEN /\ pc' = [pc EXCEPT ![b] = "done"]
                /\ ret' = [ret EXCEPT ![b] = [NoRet EXCEPT !.err = ErrMissing]]
                /\ viaWr' = [viaWr EXCEPT ![b] = TRUE]
           ELSE NewRequest(b, TRUE, valid)
        /\ UNCHANGED <<hvars, bvars, streams, cvars, sendTimeout, cret, respBody,
                       data, rerr, target, decodeCalls, readEnd, sent,
                       rtErr, deferred>>

\* c := clientFromContext(ctx); if r.timeout != nil { c.Timeout = *r.timeout }
ResolveClientReset(b) ==
    /\ pc[b] = "built"
    /\ pc' = [pc EXCEPT ![b] = "resolved"]
    /\ IF timeout[b] # <<>>
       THEN /\ clientTimeout' = timeout[b][1]
            /\ twrites' = Append(twrites, timeout[b][1])
       ELSE /\ clientTimeout' = ClientOwnTimeout
            /\ UNCHANGED twrites
    /\ UNCHANGED <<hvars, bvars, streams, transport, viaWr, sendTimeout, cret,
                   respBody, data, rerr, target, ret, decodeCalls, readEnd,
                   sent, cancelled, rtErr, deferred>>
ResolveClient(b) ==
    /\ pc[b] = "built"
    /\ pc' = [pc EXCEPT ![b] = "resolved"]
    /\ IF timeout[b] # <<>>
       THEN /\ clientTimeout' = timeout[b][1]
            /\ twrites' = Append(twrites, timeout[b][1])
       ELSE UNCHANGED <<clientTimeout, twrites>>
    /\ UNCHANGED <<hvars, bvars, streams, transport, viaWr, sendTimeout, cret,
                   respBody, data, rerr, target, ret, decodeCalls, readEnd,
                   sent, cancelled, rtErr, deferred>>

\* The record of a request body handed to the Transport: the stream, the
\* bytes it had delivered by then, and whether it was then at its end or
\* closed.
Handed(i) ==
    IF i = 0 THEN [body |-> 0, got |-> <<>>, over |-> FALSE]
    ELSE [body |-> i, got |-> streams[i].got,
          over |-> streams[i].werr # NoErr \/ streams[i].closes > 0]

\* c.Do(req): the client reads its Timeout and hands the request, with its
\* body, to its Transport.
ClientDo(b) ==
    /\ pc[b] = "resolved"
    /\ pc' = [pc EXCEPT ![b] = "rt"]
    /\ sendTimeout' = [sendTimeout EXCEPT ![b] = <<clientFromContext>>]
    /\ sent' = [sent EXCEPT ![b] = Append(@, Handed(body[b]))]
    /\ UNCHANGED <<hvars, bvars, streams, cvars, viaWr, cret, respBody, data,
                   rerr, target, ret, decodeCalls, readEnd, rtErr, deferred>>

\* A Transport that fails.
RoundTripFail(b) ==
    /\ pc[b] = "rt"
    /\ transport = "fail"
    /\ RequestDoReturns(b, FALSE, ErrTransport)
    /\ UNCHANGED <<hvars, bvars, streams, cvars, viaWr, sendTimeout, respBody,
                   data, rerr, target, decodeCalls, readEnd, sent, rtErr,
                   deferred>>

\* The Transport of the examples: Body: r.Body.  The client gives a
\* response that has no body an empty one, io.NopCloser over an empty reader.
RoundTripEcho(b) ==
    /\ pc[b] = "rt"
    /\ transport = "echo"
    /\ RequestDoReturns(b, TRUE, NoErr)
    /\ IF body[b] = 0
       THEN /\ streams' = Append(streams, StaticStream(<<>>, FALSE, TRUE))
            /\ respBody' = [respBody EXCEPT ![b] = Len(streams) + 1]
       ELSE /\ respBody' = [respBody EXCEPT ![b] = body[b]]
            /\ UNCHANGED streams
    /\ UNCHANGED <<hvars, bvars, cvars, viaWr, sendTimeout, data, rerr, target,
                   decodeCalls, readEnd, sent, rtErr, deferred>>

\* The Transport of the README: a stub that answers every request with a
\* fixed body behind io.NopCloser and does not touch the request body.
RoundTripMock(b) ==
    \E content \in ResponseBodies :
        /\ pc[b] = "rt"
        /\ transport = "mock"
        /\ streams' = Append(streams, StaticStream(content, FALSE, TRUE))
        /\ respBody' = [respBody EXCEPT ![b] = Len(streams) + 1]
        /\ RequestDoReturns(b, TRUE, NoErr)
        /\ UNCHANGED <<hvars, bvars, cvars, viaWr, sendTimeout, data, rerr, target,
                       decodeCalls, readEnd, sent, rtErr, deferred>>

\* The round trip of b failed with e: c.Do will return e, and the Transport
\* will close the request body, before or after c.Do has returned.
RoundTripFailed(b, e) ==
    /\ pc' = [pc EXCEPT ![b] = "failing"]
    /\ rtErr' = [rtErr EXCEPT ![b] = e]
    /\ streams' = IF body[b] = 0 THEN streams
                  ELSE [streams EXCEPT ![body[b]] = ToClose(@)]

\* A sending Transport reads the request body: it takes bytes, meets the
\* end of the body and closes it, or fails with the body's read error.
\* It sends no more once the request's context is cancelled.
TransportReadsBody(b) ==
    /\ pc[b] = "rt"
    /\ transport = "server"
    /\ ~cancelled
    /\ IF body[b] = 0
       THEN /\ pc' = [pc EXCEPT ![b] = "respond"]
            /\ UNCHANGED <<streams, rtErr>>
       ELSE \E n \in 1..MaxRead :
              LET r == StreamRead(streams[body[b]], n) IN
              /\ ~r.blocks
              /\ IF r.err = NoErr
                 THEN /\ streams' = [streams EXCEPT ![body[b]] = Consumed(@, Len(r.bytes))]
                      /\ UNCHANGED <<pc, rtErr>>
                 ELSE IF r.err = EOF
                 THEN /\ streams' = [streams EXCEPT ![body[b]] = Closed(@)]
                      /\ pc' = [pc EXCEPT ![b] = "respond"]
                      /\ UNCHANGED rtErr
                 ELSE RoundTripFailed(b, Wrap("Post", r.err))
    /\ UNCHANGED <<hvars, bvars, cvars, viaWr, sendTimeout, cret, respBody, data,
                   rerr, target, ret, decodeCalls, readEnd, sent, deferred>>

\* The round trip of a sending Transport fails, before or after the body
\* was sent.
TransportFails(b) ==
    /\ pc[b] \in {"rt", "respond"}
    /\ transport = "server"
    /\ RoundTripFailed(b, ErrTransport)
    /\ UNCHANGED <<hvars, bvars, cvars, viaWr, sendTimeout, cret, respBody, data,
                   rerr, target, ret, decodeCalls, readEnd, sent, deferred>>

\* c.Do returns the failure of the round trip.
ClientDoFails(b) ==
    /\ pc[b] = "failing"
    /\ RequestDoReturns(b, FALSE, rtErr[b])
    /\ UNCHANGED <<hvars, bvars, streams, cvars, viaWr, sendTimeout, respBody,
                   data, rerr, target, decodeCalls, readEnd, sent, rtErr,
                   deferred>>

\* The Transport closes a request body it was left to close.
TransportClosesBody(i) ==
    /\ i \in DOMAIN streams
    /\ streams[i].closing
    /\ streams' = [streams EXCEPT ![i] = [Closed(@) EXCEPT !.closing = FALSE]]
    /\ UNCHANGED <<hvars, bvars, cvars, dvars>>

\* The context of the requests is cancelled by its owner, at any time.
Cancel ==
    /\ ~cancelled
    /\ cancelled' = TRUE
    /\ UNCHANGED <<hvars, bvars, streams, clientTimeout, transport, twrites,
                   dvars>>

\* The Timeout of the client, which is not zero, runs out during the round
\* trip of b: the client cancels the request's context.
ClientTimeout(b) ==
    /\ pc[b] \in {"rt", "respond"}
    /\ Cancel

\* A sending Transport finds the context of a request it holds cancelled:
\* the round trip fails with the context's error.
TransportCancelledKeepsBody(b) ==
    /\ pc[b] \in {"rt", "respond"}
    /\ transport = "server"
    /\ cancelled
    /\ pc' = [pc EXCEPT ![b] = "failing"]
    /\ rtErr' = [rtErr EXCEPT ![b] = Wrap("Post", ErrCanceled)]
    /\ UNCHANGED <<hvars, bvars, streams, cvars, viaWr, sendTimeout, cret,
                   respBody, data, rerr, target, ret, decodeCalls, readEnd, sent,
                   deferred>>
TransportCancelled(b) ==
    /\ pc[b] \in {"rt", "respond"}
    /\ transport = "server"
    /\ cancelled
    /\ RoundTripFailed(b, Wrap("Post", ErrCanceled))
    /\ UNCHANGED <<hvars, bvars, cvars, viaWr, sendTimeout, cret, respBody, data,
                   rerr, target, ret, decodeCalls, readEnd, sent, deferred>>

\* The server's response arrives: its body is a stream that may fail
\* before its end.
TransportResponds(b) ==
    \E content \in ResponseBodies, fails \in BOOLEAN :
        /\ pc[b] = "respond"
        /\ streams' = Append(streams, StaticStream(content, fails, FALSE))
        /\ respBody' = [respBody EXCEPT ![b] = Len(streams) + 1]
        /\ RequestDoReturns(b, TRUE, NoErr)
        /\ UNCHANGED <<hvars, bvars, cvars, viaWr, sendTimeout, data, rerr, target,
                       decodeCalls, readEnd, sent, rtErr, deferred>>

\* WithResult.Do returns: the deferred resp.Body.Close() runs.
WithResultReturnsUnclosed(b, r) ==
    /\ ret' = [ret EXCEPT ![b] = r]
    /\ pc' = [pc EXCEPT ![b] = "done"]
    /\ UNCHANGED streams
WithResultReturns(b, r) ==
    /\ ret' = [ret EXCEPT ![b] = r]
    /\ pc' = [pc EXCEPT ![b] = "done"]
    /\ streams' = [streams EXCEPT ![respBody[b]] = Closed(@)]

\* How many requests a caller sends on one builder.
MaxSends == 2

\* The error io.ReadAll returns when a Read returned err: nil at the end of
\* the stream.
ReadAllErrSwallowed(err) == NoErr
ReadAllErr(err) == IF err = EOF THEN NoErr ELSE err

\* io.ReadAll(resp.Body): one Read of the loop.  Bytes are appended; the
\* end of the stream ends the loop without error; an error ends the call.
ReadAllStep(b) ==
    \E n \in 1..MaxRead :
        LET r == StreamRead(streams[respBody[b]], n) IN
        /\ pc[b] = "read"
        /\ ~r.blocks
        /\ readEnd' = [readEnd EXCEPT ![b] = r.err]
        /\ IF r.err = NoErr
           THEN /\ data' = [data EXCEPT ![b] = @ \o r.bytes]
                /\ streams' = [streams EXCEPT ![respBody[b]] = Consumed(@, Len(r.bytes))]
                /\ UNCHANGED <<pc, rerr, ret>>
           ELSE /\ rerr' = [rerr EXCEPT ![b] = ReadAllErr(r.err)]
                /\ UNCHANGED data
                /\ IF ReadAllErr(r.err) = NoErr
                   THEN /\ pc' = [pc EXCEPT ![b] = "decode"]
                        /\ UNCHANGED <<streams, ret>>
                   ELSE WithResultReturns(b,
                            [NoRet EXCEPT !.err =
                                Wrap("request: read response body", ReadAllErr(r.err))])
        /\ UNCHANGED <<hvars, bvars, cvars, viaWr, sendTimeout, cret, respBody,
                       target, decodeCalls, sent, rtErr, deferred>>

\* Request.Do has handed a response to its caller, who has yet to close its
\* body.
HoldsResponse(b) == pc[b] = "done" /\ ~viaWr[b] /\ ret[b].resp

\* The caller of Request.Do reads the body of the response it got, as the
\* example does: io.ReadAll(resp.Body), one Read of the loop.
CallerReadAll(b) ==
    \E n \in 1..MaxRead :
        LET r == StreamRead(streams[respBody[b]], n) IN
        /\ HoldsResponse(b)
        /\ rerr[b] = Pending
        /\ ~r.blocks
        /\ readEnd' = [readEnd EXCEPT ![b] = r.err]
        /\ IF r.err = NoErr
           THEN /\ data' = [data EXCEPT ![b] = @ \o r.bytes]
                /\ streams' = [streams EXCEPT ![respBody[b]] = Consumed(@, Len(r.bytes))]
                /\ UNCHANGED rerr
           ELSE /\ rerr' = [rerr EXCEPT ![b] = ReadAllErr(r.err)]
                /\ UNCHANGED <<data, streams>>
        /\ UNCHANGED <<hvars, bvars, cvars, pc, viaWr, sendTimeout, cret, respBody,
                       target, ret, decodeCalls, sent, rtErr, deferred>>

\* The caller's deferred resp.Body.Close(), run once io.ReadAll has returned.
CallerCloses(b) ==
    /\ HoldsResponse(b)
    /\ rerr[b] # Pending
    /\ pc' = [pc EXCEPT ![b] = "closed"]
    /\ streams' = [streams EXCEPT ![respBody[b]] = Closed(@)]
    /\ UNCHANGED <<hvars, bvars, cvars, viaWr, sendTimeout, cret, respBody, data,
                   rerr, target, ret, decodeCalls, readEnd, sent, rtErr,
                   deferred>>

\* A Do call has returned and the caller goes on with the same builder: it
\* may call Do again.  A caller that got a response has read its body to
\* the end first, as the example does; the Close it deferred may be still
\* to come.
CallerResumes(b) ==
    /\ pc[b] \in {"done", "closed"}
    /\ HoldsResponse(b) => rerr[b] # Pending
    /\ Len(sent[b]) < MaxSends
    /\ deferred' = [deferred EXCEPT ![b] =
                       IF HoldsResponse(b) THEN Append(@, respBody[b]) ELSE @]
    /\ pc' = [pc EXCEPT ![b] = "cfg"]
    /\ viaWr' = [viaWr EXCEPT ![b] = FALSE]
    /\ sendTimeout' = [sendTimeout EXCEPT ![b] = <<>>]
    /\ cret' = [cret EXCEPT ![b] = [resp |-> FALSE, err |-> NoErr]]
    /\ respBody' = [respBody EXCEPT ![b] = 0]
    /\ data' = [data EXCEPT ![b] = <<>>]
    /\ rerr' = [rerr EXCEPT ![b] = Pending]
    /\ readEnd' = [readEnd EXCEPT ![b] = Pending]
    /\ ret' = [ret EXCEPT ![b] = NoRet]
    /\ rtErr' = [rtErr EXCEPT ![b] = NoErr]
    /\ UNCHANGED <<hvars, bvars, streams, cvars, target, decodeCalls, sent>>

\* The caller's function returns after its last Do call and the Close calls
\* it deferred on earlier responses run, the last deferred first.
CallerRunsDeferred(b) ==
    /\ \/ pc[b] \in {"closed", "exit"}
       \/ pc[b] = "done" /\ ~HoldsResponse(b)
    /\ deferred[b] # <<>>
    /\ LET i == deferred[b][Len(deferred[b])] IN
       streams' = [streams EXCEPT ![i] = Closed(@)]
    /\ deferred' = [deferred EXCEPT ![b] = SubSeq(@, 1, Len(@) - 1)]
    /\ pc' = [pc EXCEPT ![b] = "exit"]
    /\ UNCHANGED <<hvars, bvars, cvars, viaWr, sendTimeout, cret, respBody, data,
                   rerr, target, ret, decodeCalls, readEnd, sent, rtErr>>

\* The rest of WithResult.Do: the decode function, if there is one, and the
\* return of the Result.
DecodeAndReturnPartial(b) ==
    /\ pc[b] = "decode"
    /\ IF wr[b].unmarshal # "none"
       THEN LET u == Unmarshal(wr[b].unmarshal, data[b]) IN
            /\ decodeCalls' = [decodeCalls EXCEPT ![b] = @ + 1]
            /\ IF u.err # NoErr
               THEN /\ WithResultReturns(b,
                         [resp |-> TRUE, result |-> TRUE, raw |-> data[b], err |-> u.err])
                    /\ UNCHANGED target
               ELSE /\ target' = [target EXCEPT ![b] = u.val]
                    /\ WithResultReturns(b,
                         [resp |-> TRUE, result |-> TRUE, raw |-> data[b], err |-> NoErr])
       ELSE /\ WithResultReturns(b,
                 [resp |-> TRUE, result |-> TRUE, raw |-> data[b], err |-> NoErr])
            /\ UNCHANGED <<target, decodeCalls>>
    /\ UNCHANGED <<hvars, bvars, cvars, viaWr, sendTimeout, cret, respBody, data,
                   rerr, readEnd, sent, rtErr, deferred>>
DecodeAndReturn(b) ==
    /\ pc[b] = "decode"
    /\ IF wr[b].unmarshal # "none"
       THEN LET u == Unmarshal(wr[b].unmarshal, data[b]) IN
            /\ decodeCalls' = [decodeCalls EXCEPT ![b] = @ + 1]
            /\ IF u.err # NoErr
               THEN /\ WithResultReturns(b, [NoRet EXCEPT !.err = u.err])
                    /\ UNCHANGED target
               ELSE /\ target' = [target EXCEPT ![b] = u.val]
                    /\ WithResultReturns(b,
                         [resp |-> TRUE, result |-> TRUE, raw |-> data[b], err |-> NoErr])
       ELSE /\ WithResultReturns(b,
                 [resp |-> TRUE, result |-> TRUE, raw |-> data[b], err |-> NoErr])
            /\ UNCHANGED <<target, decodeCalls>>
    /\ UNCHANGED <<hvars, bvars, cvars, viaWr, sendTimeout, cret, respBody, data,
                   rerr, readEnd, sent, rtErr, deferred>>

-----------------------------------------------------------------------------
(* Initial states: builders made by New, callers that hold no wrapper, and *)
(* the client of the examples with some Transport.                          *)

Init ==
    /\ header = [b \in Builders |-> EmptyHeader]
    /\ timeout = [b \in Builders |-> <<>>]
    /\ body = [b \in Builders |-> 0]
    /\ wr = [b \in Builders |-> NoWrapper]
    /\ streams = <<>>
    /\ clientTimeout = ClientOwnTimeout
    /\ transport \in Transports
    /\ pc = [b \in Builders |-> "cfg"]
    /\ viaWr = [b \in Builders |-> FALSE]
    /\ sendTimeout = [b \in Builders |-> <<>>]
    /\ cret = [b \in Builders |-> [resp |-> FALSE, err |-> NoErr]]
    /\ respBody = [b \in Builders |-> 0]
    /\ data = [b \in Builders |-> <<>>]
    /\ rerr = [b \in Builders |-> Pending]
    /\ target = [b \in Builders |-> Nil]
    /\ ret = [b \in Builders |-> NoRet]
    /\ hlog = [b \in Builders |-> <<>>]
    /\ twrites = <<>>
    /\ decodeCalls = [b \in Builders |-> 0]
    /\ readEnd = [b \in Builders |-> Pending]
    /\ sent = [b \in Builders |-> <<>>]
    /\ rtErr = [b \in Builders |-> NoErr]
    /\ deferred = [b \in Builders |-> <<>>]
    /\ cancelled = FALSE

-----------------------------------------------------------------------------
(* One caller that sets a body or a timeout, wraps the builder or not, and *)
(* sends once.                                                             *)

\* How many configuration calls the caller makes before it sends.
MaxSetup == 2

InSetup(b) == Len(hlog[b]) < MaxSetup

Next ==
    \/ InSetup(1) /\ WithBody(1)
    \/ InSetup(1) /\ WithJSONBody(1)
    \/ InSetup(1) /\ WithXMLBody(1)
    \/ InSetup(1) /\ WithResult(1)
    \/ InSetup(1) /\ WithJSONResult(1)
    \/ InSetup(1) /\ WithXMLResult(1)
    \/ InSetup(1) /\ ZeroWithResult(1)
    \/ InSetup(1) /\ WithTimeout(1)
    \/ InSetup(1) /\ WithBasicAuth(1)
    \/ InSetup(1) /\ WithBearerAuthentication(1)
    \/ RequestDo(1)
    \/ WithResultDo(1)
    \/ ResolveClient(1)
    \/ ClientDo(1)
    \/ RoundTripFail(1)
    \/ RoundTripEcho(1)
    \/ RoundTripMock(1)
    \/ TransportReadsBody(1)
    \/ TransportFails(1)
    \/ ClientDoFails(1)
    \/ \E i \in DOMAIN streams : TransportClosesBody(i)
    \/ CallerReadAll(1)
    \/ CallerCloses(1)
    \/ TransportResponds(1)
    \/ ReadAllStep(1)
    \/ DecodeAndReturn(1)
    \/ \E i \in Pipes : ProducerWrite(i)
    \/ \E i \in Pipes : ProducerWriteReturns(i)
    \/ \E i \in Pipes : ProducerWriteFails(i)
    \/ \E i \in Pipes : ProducerClose(i)

Spec == Init /\ [][Next]_vars

-----------------------------------------------------------------------------
(* Two callers that share the client attached to the context: each sets a *)
(* timeout or not and sends, no body.                                      *)

NextTimeout ==
    \E b \in Builders :
        \/ WithTimeout(b)
        \/ RequestDo(b)
        \/ ResolveClient(b)
        \/ ClientDo(b)
        \/ RoundTripFail(b)
        \/ RoundTripMock(b)
        \/ TransportReadsBody(b)
        \/ TransportFails(b)
        \/ ClientDoFails(b)
        \/ TransportResponds(b)

InitTimeout == Init /\ transport # "echo"

SpecTimeout == InitTimeout /\ [][NextTimeout]_vars

-----------------------------------------------------------------------------
(* The builder's configuration calls alone: one caller, one builder made   *)
(* by New.                                                                 *)

InitHeaders == Init /\ transport = "echo"

NextHeaders ==
    \/ WithHeader(1)
    \/ WithBasicAuth(1)
    \/ WithBearerAuthentication(1)
    \/ WithMultiValuedHeader(1)
    \/ WithAccept(1)
    \/ WithResult(1)
    \/ WithJSONResult(1)
    \/ WithXMLResult(1)

SpecHeaders == InitHeaders /\ [][NextHeaders]_vars

-----------------------------------------------------------------------------
(* The body setters on a builder whose Content-Type was written before:    *)
(* one caller sets headers and bodies, and the encoder tasks start.        *)

\* The keys the caller passes here.
BodyKeys == {KContentType, KContentTypeLower, KTrace}

NextBodies ==
    \/ WithContentType(1)
    \/ WithMultiValuedHeaderIn(1, BodyKeys)
    \/ WithBody(1)
    \/ WithJSONBody(1)
    \/ WithXMLBody(1)
    \/ \E i \in Pipes : ProducerWrite(i)
    \/ \E i \in Pipes : ProducerClose(i)

SpecBodies == InitHeaders /\ [][NextBodies]_vars

-----------------------------------------------------------------------------
(* Progress.  One caller sets bodies and sends or does not; the context    *)
(* may be cancelled.  The steps of a Do call that the caller's goroutine   *)
(* runs, the steps of the encoder tasks, the client's timer and a sending  *)
(* Transport's reaction to a cancelled context happen if they stay         *)
(* possible; a server answers or not.                                      *)

\* A step of the encoder task of stream i.
EncoderStep(i) ==
    /\ i \in Pipes
    /\ \/ ProducerWrite(i)
       \/ ProducerWriteReturns(i)
       \/ ProducerWriteFails(i)
       \/ ProducerClose(i)

NextLive ==
    \/ InSetup(1) /\ WithBody(1)
    \/ InSetup(1) /\ WithJSONBody(1)
    \/ InSetup(1) /\ WithXMLBody(1)
    \/ RequestDo(1)
    \/ ResolveClient(1)
    \/ ClientDo(1)
    \/ RoundTripFail(1)
    \/ RoundTripEcho(1)
    \/ RoundTripMock(1)
    \/ TransportReadsBody(1)
    \/ TransportFails(1)
    \/ ClientDoFails(1)
    \/ \E i \in DOMAIN streams : TransportClosesBody(i)
    \/ CallerReadAll(1)
    \/ CallerCloses(1)
    \/ TransportResponds(1)
    \/ Cancel
    \/ ClientTimeout(1)
    \/ TransportCancelled(1)
    \/ \E i \in Pipes : ProducerWrite(i)
    \/ \E i \in Pipes : ProducerWriteReturns(i)
    \/ \E i \in Pipes : ProducerWriteFails(i)
    \/ \E i \in Pipes : ProducerClose(i)

Fairness ==
    /\ WF_vars(ResolveClient(1))
    /\ WF_vars(ClientDo(1))
    /\ WF_vars(RoundTripFail(1))
    /\ WF_vars(RoundTripEcho(1))
    /\ WF_vars(RoundTripMock(1))
    /\ WF_vars(ClientTimeout(1))
    /\ WF_vars(TransportCancelled(1))
    /\ WF_vars(ClientDoFails(1))
    /\ \A i \in 1..MaxSetup : WF_vars(TransportClosesBody(i))
    /\ \A i \in 1..MaxSetup : WF_vars(EncoderStep(i))

SpecLive == Init /\ [][NextLive]_vars /\ Fairness

-----------------------------------------------------------------------------
(* One caller that sets a structured body, wraps the builder or not, and   *)
(* sends more than once, with no configuration call between the sends.     *)

\* Caller b is setting up its builder and has sent nothing yet.
BeforeSends(b) == InSetup(b) /\ sent[b] = <<>>

NextResend ==
    \/ BeforeSends(1) /\ WithJSONBody(1)
    \/ BeforeSends(1) /\ WithXMLBody(1)
    \/ BeforeSends(1) /\ WithJSONResult(1)
    \/ RequestDo(1)
    \/ WithResultDo(1)
    \/ ResolveClient(1)
    \/ ClientDo(1)
    \/ RoundTripFail(1)
    \/ RoundTripEcho(1)
    \/ RoundTripMock(1)
    \/ TransportReadsBody(1)
    \/ TransportFails(1)
    \/ ClientDoFails(1)
    \/ \E i \in DOMAIN streams : TransportClosesBody(i)
    \/ CallerReadAll(1)
    \/ CallerCloses(1)
    \/ TransportResponds(1)
    \/ ReadAllStep(1)
    \/ DecodeAndReturn(1)
    \/ CallerResumes(1)
    \/ CallerRunsDeferred(1)
    \/ \E i \in Pipes : ProducerWrite(i)
    \/ \E i \in Pipes : ProducerWriteReturns(i)
    \/ \E i \in Pipes : ProducerWriteFails(i)
    \/ \E i \in Pipes : ProducerClose(i)

SpecResend == Init /\ [][NextResend]_vars

-----------------------------------------------------------------------------
(* The example of the package: one caller sets a timeout, basic            *)
(* authentication and a JSON body, sends through the client that echoes    *)
(* the request body, reads the body of the response and closes it.         *)

InitExample == Init /\ transport = "echo"

NextExample ==
    \/ WithTimeout(1)
    \/ WithBasicAuth(1)
    \/ WithJSONBody(1)
    \/ RequestDo(1)
    \/ ResolveClient(1)
    \/ ClientDo(1)
    \/ RoundTripEcho(1)
    \/ CallerReadAll(1)
    \/ CallerCloses(1)
    \/ \E i \in Pipes : ProducerWrite(i)
    \/ \E i \in Pipes : ProducerWriteReturns(i)
    \/ \E i \in Pipes : ProducerClose(i)

SpecExample == InitExample /\ [][NextExample]_vars

-----------------------------------------------------------------------------
(* Claims about WithResult.Do.                                             *)

\* C1: the decode function is invoked at most once, and only after
\* Request.Do returned a response without error and the body was read to
\* the end of the stream without error; it is never invoked when Request.Do
\* failed or the body read failed.
C1_DecodeOnceAfterFullRead ==
    \A b \in Builders :
        /\ decodeCalls[b] <= 1
        /\ decodeCalls[b] = 1 =>
              /\ wr[b].unmarshal # "none"
              /\ cret[b].resp /\ cret[b].err = NoErr
              /\ readEnd[b] = EOF
        /\ (cret[b].err # NoErr \/ readEnd[b] \notin {Pending, NoErr, EOF}) =>
              decodeCalls[b] = 0

\* The decode function ran on a body that was read in full.
C1_Witness ==
    /\ pc[1] = "done"
    /\ decodeCalls[1] = 1
    /\ readEnd[1] = EOF
    /\ Len(data[1]) = 3

\* C2: WithResult.Do returns either a Result and no error, or no Result and
\* an error; when the decode function fails on a body that was read, the
\* call returns the decode error and no Result, so no raw bytes.
C2_NoPartialResult ==
    \A b \in Builders :
        (pc[b] = "done" /\ viaWr[b]) =>
            /\ \/ ret[b].result /\ ret[b].resp /\ ret[b].err = NoErr
               \/ ~ret[b].result /\ ~ret[b].resp /\ ret[b].raw = <<>>
                  /\ ret[b].err # NoErr
            /\ (decodeCalls[b] = 1
                    /\ UnmarshalJSON(data[b]).err # NoErr
                    /\ wr[b].unmarshal = "json") =>
                  /\ ~ret[b].result
                  /\ ret[b].raw = <<>>
                  /\ ret[b].err =
                        Wrap("request: unmarshal JSON", UnmarshalJSON(data[b]).err)

\* The body was read, the decode function failed, and nothing was returned.
C2_Witness ==
    /\ pc[1] = "done" /\ viaWr[1]
    /\ decodeCalls[1] = 1
    /\ wr[1].unmarshal = "json"
    /\ data[1] = <<"{", "a">>
    /\ ret[1].err = Wrap("request: unmarshal JSON", ErrUnexpectedEnd)
    /\ ~ret[1].result /\ ret[1].raw = <<>>

\* C3: when Request.Do returned a response to WithResult.Do, the response
\* body is closed exactly once by the time WithResult.Do returns, on every
\* path, and not before; the body of a returned Result is closed, and a
\* Read of it yields no byte.
C3_BodyClosedOnce ==
    \A b \in Builders :
        (viaWr[b] /\ cret[b].resp) =>
            /\ streams[respBody[b]].closes = IF pc[b] = "done" THEN 1 ELSE 0
            /\ ret[b].result =>
                  \A n \in 1..MaxRead :
                     LET r == StreamRead(streams[respBody[b]], n) IN
                     ~r.blocks /\ r.bytes = <<>> /\ r.err # NoErr

\* The body read failed partway and the body was closed.
C3_Witness ==
    /\ pc[1] = "done" /\ viaWr[1] /\ cret[1].resp
    /\ rerr[1] = ErrBodyRead
    /\ data[1] # <<>>
    /\ streams[respBody[1]].closes = 1

-----------------------------------------------------------------------------
(* Claims about the timeout override.                                      *)

\* The client took the request of caller b.
Dispatched(b) == sendTimeout[b] # <<>>

\* C4: a send uses the override of its own builder: the Timeout the client
\* has when it takes the request of a builder with override d is d, for
\* every interleaving of Do calls on one client.
C4_SendUsesOwnOverride ==
    \A b \in Builders :
        (Dispatched(b) /\ timeout[b] # <<>>) => sendTimeout[b] = timeout[b]

\* The override last written to the client, or the client's own Timeout.
LastWritten ==
    IF twrites = <<>> THEN ClientOwnTimeout ELSE twrites[Len(twrites)]

\* C5: the client's Timeout changes only in the Request.Do of a builder
\* with an override, and then to that override; the Do of a builder without
\* an override leaves it unchanged, and is sent with the override written
\* last, if one was written, not with the client's own Timeout.
C5_OverridePersists ==
    [][/\ clientTimeout' # clientTimeout =>
             \E b \in Builders :
                /\ pc[b] = "built" /\ pc'[b] = "resolved"
                /\ timeout[b] # <<>>
                /\ clientTimeout' = timeout[b][1]
       /\ \A b \in Builders :
             (pc[b] = "built" /\ pc'[b] = "resolved" /\ timeout[b] # <<>>) =>
                 clientTimeout' = timeout[b][1]
       /\ \A b \in Builders :
             (pc[b] = "built" /\ pc'[b] = "resolved" /\ timeout[b] = <<>>) =>
                 clientTimeout' = clientTimeout
       /\ \A b \in Builders :
             (pc[b] = "resolved" /\ pc'[b] = "rt" /\ timeout[b] = <<>>) =>
                 sendTimeout'[b] = <<LastWritten>>]_vars

\* A send without override went out with the override of an earlier send.
C5_Witness ==
    \E b \in Builders :
        /\ timeout[b] = <<>>
        /\ Dispatched(b)
        /\ sendTimeout[b] = <<10>>
        /\ twrites = <<10>>

-----------------------------------------------------------------------------
(* Claims about the structured body.                                       *)

StructuredSetters == {"WithJSONBody", "WithXMLBody"}

\* The encoding of pipe i failed or will fail: Encode returns an error.
EncodingFails(i) ==
    IF streams[i].codec = "json"
    THEN MarshalJSON(streams[i].val).err # NoErr
    ELSE streams[i].val \notin GoodVals

\* The setters return to the caller with the body set, whatever the value,
\* and no failure is reported before Do is called.
SettersNeverFail ==
    \A b \in Builders :
        (pc[b] = "cfg" /\ hlog[b] # <<>>
            /\ hlog[b][Len(hlog[b])].call \in StructuredSetters) =>
            /\ body[b] \in Pipes
            /\ ret[b] = NoRet

\* A reader of the pipe of a failed encoding never meets a clean end of
\* stream, and once the task has ended it meets the encoder's error.
FailureIsReadError ==
    \A i \in Pipes : \A n \in 1..MaxRead :
        LET r == StreamRead(streams[i], n) IN
        EncodingFails(i) =>
            /\ r.err # EOF
            /\ (streams[i].ppc = "done" /\ streams[i].closes = 0) =>
                  r.err = ErrUnsupported

\* The call of b returned the error that the client returned.
ThroughTransport(b) == cret[b].err # NoErr /\ ret[b].err = cret[b].err

\* The call of b returned a failure of the encoder.
ReturnedEncodeFailure(b) ==
    pc[b] = "done" /\ Cause(ret[b].err) = ErrUnsupported

\* C6 as stated: the setters never fail synchronously, a failed encoding
\* is a read error and never a clean end of stream, and the failure reaches
\* the caller of Do only through the transport's error path.
C6_OnlyTransportPath ==
    /\ SettersNeverFail
    /\ FailureIsReadError
    /\ \A b \in Builders : ReturnedEncodeFailure(b) => ThroughTransport(b)

\* C6 amended: the failure reaches the caller of Request.Do only through
\* the transport's error path; WithResult.Do returns it that way, or, when
\* the transport handed the request body back as the response body, as the
\* error of its own read of the body.
C6_TransportOrBodyRead ==
    /\ SettersNeverFail
    /\ FailureIsReadError
    /\ \A b \in Builders :
          ReturnedEncodeFailure(b) =>
              \/ ThroughTransport(b)
              \/ /\ viaWr[b]
                 /\ cret[b].err = NoErr
                 /\ respBody[b] = body[b]
                 /\ ret[b].err = Wrap("request: read response body", ErrUnsupported)

\* Request.Do returned the encoder's failure, which the transport met when
\* it read the body.
C6_Witness ==
    /\ pc[1] = "done" /\ ~viaWr[1]
    /\ transport = "server"
    /\ body[1] \in Pipes
    /\ EncodingFails(body[1])
    /\ ret[1].err = Wrap("Post", ErrUnsupported)

\* The example: the Transport echoes the body, the builder has a JSON body
\* of a value that has a JSON text, and the wrapper decodes JSON.
EchoExample(b) ==
    /\ transport = "echo"
    /\ viaWr[b]
    /\ wr[b].unmarshal = "json"
    /\ body[b] \in Pipes
    /\ streams[body[b]].codec = "json"
    /\ MarshalJSON(streams[body[b]].val).err = NoErr

\* A step of the call of b, or of the encoder task of its body.
CallStep(b) ==
    \/ ResolveClient(b)
    \/ ClientDo(b)
    \/ RoundTripEcho(b)
    \/ ReadAllStep(b)
    \/ DecodeAndReturn(b)
    \/ ProducerWrite(body[b])
    \/ ProducerWriteReturns(body[b])
    \/ ProducerClose(body[b])

\* C7: in the example, Do never deadlocks and returns no error; the raw
\* data, trimmed, is the JSON text of the value sent, and the target holds
\* the value decoded from those bytes.
C7_EchoRoundTrip ==
    \A b \in Builders :
        EchoExample(b) =>
            /\ pc[b] \in {"built", "resolved", "rt", "read", "decode"} =>
                  ENABLED CallStep(b)
            /\ (pc[b] = "done" /\ ret[b].err # ErrConstruct) =>
                  /\ ret[b].err = NoErr
                  /\ ret[b].result
                  /\ TrimSpace(ret[b].raw) = MarshalJSON(streams[body[b]].val).bytes
                  /\ target[b] = streams[body[b]].val
                  /\ target[b] = UnmarshalJSON(ret[b].raw).val

\* The example ran to its end: the value came back.
C7_Witness ==
    /\ EchoExample(1)
    /\ pc[1] = "done"
    /\ ret[1].result
    /\ ret[1].raw = <<"{", "b", "}", "\n">>
    /\ target[1] = "b"

-----------------------------------------------------------------------------
(* Header claims.                                                          *)

\* Case-insensitive equality of two header field names; a name that is no
\* valid field name is the same key only as itself.
IsFieldName(k) == \A i \in 1..Len(k) : validHeaderFieldByte(k[i])
Fold(k) == [i \in 1..Len(k) |-> ToLower(k[i])]
SameKey(k1, k2) ==
    IF IsFieldName(k1) /\ IsFieldName(k2) THEN Fold(k1) = Fold(k2) ELSE k1 = k2

SetMax(S) == CHOOSE x \in S : \A y \in S : y <= x

\* The calls of builder b that touched key k, as positions of its history.
Touches(b, k) ==
    {i \in 1..Len(hlog[b]) : hlog[b][i].op # "nop" /\ SameKey(hlog[b][i].key, k)}

\* C8: if the last call that touched a key was a single-value set of v, then
\* reading the key under any casing yields exactly the one value v.
C8_SetLeavesOneValue ==
    \A b \in Builders : \A k \in Keys :
        LET T == Touches(b, k) IN
        (T # {} /\ hlog[b][SetMax(T)].op = "set") =>
            \A k2 \in Keys :
                SameKey(k, k2) =>
                    HeaderValues(header[b], k2) = <<hlog[b][SetMax(T)].val>>

\* Two values were added under one casing and then one set under another.
C8_Witness ==
    /\ Len(hlog[1]) = 3
    /\ hlog[1][1] = [call |-> "WithMultiValuedHeader", op |-> "add",
                    key |-> KAcceptLower, val |-> "x"]
    /\ hlog[1][2] = [call |-> "WithMultiValuedHeader", op |-> "add",
                    key |-> KAcceptLower, val |-> "y"]
    /\ hlog[1][3] = [call |-> "WithHeader", op |-> "set", key |-> KAccept, val |-> "y"]
    /\ HeaderValues(header[1], KAcceptLower) = <<"y">>

\* The values a key must hold by the history: the value of the last set of
\* the key, if any, followed by the values added since, in call order.
ExpectedValues(b, k) ==
    LET T == Touches(b, k)
        sets == {i \in T : hlog[b][i].op = "set"}
        from == IF sets = {} THEN 1 ELSE SetMax(sets)
        kept == SelectSeq(SubSeq(hlog[b], from, Len(hlog[b])),
                          LAMBDA e : e.op # "nop" /\ SameKey(e.key, k))
    IN [i \in 1..Len(kept) |-> kept[i].val]

\* C9: a multi-value add appends after the values already stored and
\* removes or reorders none; the values of every key are exactly those the
\* history gives, and no key is stored that no call touched.
C9_AddAppendsInOrder ==
    \A b \in Builders :
        /\ \A k \in Keys : HeaderValues(header[b], k) = ExpectedValues(b, k)
        /\ \A ck \in DOMAIN header[b] : Touches(b, ck) # {}

\* A set followed by two different values added under another casing.
C9_Witness ==
    /\ Len(hlog[1]) = 3
    /\ hlog[1][1] = [call |-> "WithHeader", op |-> "set", key |-> KAccept, val |-> "y"]
    /\ hlog[1][2] = [call |-> "WithMultiValuedHeader", op |-> "add",
                    key |-> KAcceptLower, val |-> "x"]
    /\ hlog[1][3] = [call |-> "WithMultiValuedHeader", op |-> "add",
                    key |-> KAccept, val |-> "y"]
    /\ HeaderValues(header[1], KAcceptLower) = <<"y", "x", "y">>

\* An Accept header was set on builder b by an earlier call.
AcceptWasSet(b) == Touches(b, KAccept) # {}

\* The step is a WithJSONResult or WithXMLResult call on builder b.
ResultStep(b, name) ==
    /\ Len(hlog'[b]) = Len(hlog[b]) + 1
    /\ hlog'[b][Len(hlog'[b])].call = name

\* C10: WithJSONResult and WithXMLResult leave the header collection
\* unchanged when an Accept header was set before, whatever its value, and
\* otherwise set Accept to the one value of their MIME type and change no
\* other key.
C10_AcceptKeptWhenSet ==
    [][\A b \in Builders :
         \A m \in {<<"WithJSONResult", jsonMIME>>, <<"WithXMLResult", xmlMIME>>} :
            ResultStep(b, m[1]) =>
                IF AcceptWasSet(b)
                THEN header'[b] = header[b]
                ELSE header'[b] = HeaderSet(header[b], KAccept, m[2])]_vars

-----------------------------------------------------------------------------
(* Claims about the body setters' headers.                                 *)

\* The step is the configuration call `name` on builder b.
CallIs(b, name) ==
    /\ Len(hlog'[b]) = Len(hlog[b]) + 1
    /\ hlog'[b][Len(hlog'[b])].call = name

\* Headers h2 are headers h1 but for the key k, which holds the one value v.
OnlyKeyBecomes(h1, h2, k, v) ==
    /\ DOMAIN h2 = DOMAIN h1 \cup {k}
    /\ h2[k] = <<v>>
    /\ \A j \in DOMAIN h1 : j # k => h2[j] = h1[j]

\* C11: WithJSONBody leaves the one value application/json under
\* Content-Type, whatever values the key held, and changes no other key;
\* WithXMLBody does so with application/xml; WithBody changes no header, so
\* the Content-Type of an earlier body setter stays when WithBody replaces
\* the body.
C11_BodySetterHeaders ==
    [][\A b \in Builders :
         /\ CallIs(b, "WithJSONBody") =>
                OnlyKeyBecomes(header[b], header'[b], KContentType, jsonMIME)
         /\ CallIs(b, "WithXMLBody") =>
                OnlyKeyBecomes(header[b], header'[b], KContentType, xmlMIME)
         /\ CallIs(b, "WithBody") =>
                /\ header'[b] = header[b]
                /\ body'[b] # body[b]]_vars

\* Content-Type held two values, added under two casings of the key, when
\* WithJSONBody was called: it holds application/json alone.
C11_Witness ==
    /\ Len(hlog[1]) = 3
    /\ hlog[1][1] = [call |-> "WithMultiValuedHeader", op |-> "add",
                    key |-> KContentType, val |-> "x"]
    /\ hlog[1][2] = [call |-> "WithMultiValuedHeader", op |-> "add",
                    key |-> KContentTypeLower, val |-> "y"]
    /\ hlog[1][3].call = "WithJSONBody"
    /\ streams[body[1]].kind = "pipe"
    /\ HeaderValues(header[1], KContentTypeLower) = <<jsonMIME>>

-----------------------------------------------------------------------------
(* Claims about failures of a Do call.                                     *)

\* The Transport was handed the request of caller b and the client
\* returned a failure to Request.Do.
TransportFailed(b) == sent[b] # <<>> /\ cret[b].err # NoErr

\* C12: when the Transport fails, Request.Do returns the client's failure
\* unchanged and no response; WithResult.Do returns that same failure
\* unwrapped and no Result, reads no body and invokes no decode function;
\* the Transport was invoked once for the call.
C12_TransportFailureAsIs ==
    \A b \in Builders :
        TransportFailed(b) =>
            /\ ~cret[b].resp
            /\ pc[b] = "done"
            /\ ret[b] = [NoRet EXCEPT !.err = cret[b].err]
            /\ respBody[b] = 0
            /\ data[b] = <<>> /\ rerr[b] = Pending /\ readEnd[b] = Pending
            /\ decodeCalls[b] = 0 /\ target[b] = Nil
            /\ Len(sent[b]) = 1

\* WithResult.Do with a JSON decode function returned the failure of a
\* Transport that had begun to send the body.
C12_Witness ==
    /\ viaWr[1] /\ wr[1].unmarshal = "json"
    /\ transport = "server"
    /\ body[1] # 0 /\ streams[body[1]].kind = "pipe"
    /\ streams[body[1]].closes = 1
    /\ cret[1].err = ErrTransport
    /\ ret[1].err = ErrTransport

\* C13: WithResult.Do on a wrapper without a builder fails at once: it
\* returns the error and no Result, resolves no client, changes no client's
\* Timeout and hands no request to a Transport.
C13_MissingRequestFailsFirst ==
    \A b \in Builders :
        (viaWr[b] /\ wr[b].req = 0) =>
            /\ pc[b] = "done"
            /\ ret[b] = [NoRet EXCEPT !.err = ErrMissing]
            /\ sendTimeout[b] = <<>> /\ sent[b] = <<>>
            /\ cret[b] = [resp |-> FALSE, err |-> NoErr]
            /\ respBody[b] = 0
            /\ twrites = <<>> /\ clientTimeout = ClientOwnTimeout

\* The caller, whose own builder carries an override, called Do on a zero
\* WithResult.
C13_Witness ==
    /\ viaWr[1] /\ wr[1].made /\ wr[1].req = 0
    /\ timeout[1] # <<>>
    /\ ret[1].err = ErrMissing

-----------------------------------------------------------------------------
(* Claims about the pipe between the encoder task and the body's reader.   *)

RECURSIVE Flat(_)
Flat(chunks) == IF chunks = <<>> THEN <<>> ELSE Head(chunks) \o Flat(Tail(chunks))

\* The bytes of the first n writes of a pipe's encoder.
Written(st, n) == Flat(SubSeq(Plan(st).chunks, 1, n))

IsPrefix(s, t) == Len(s) <= Len(t) /\ SubSeq(t, 1, Len(s)) = s

\* C14: the pipe is unbuffered: the bytes of the writes that returned have
\* all been read, and a read blocks unless bytes of a pending write are on
\* offer or the writer has closed.  What the reader has taken, followed by
\* what is left of the pending write, is what the encoder wrote so far, in
\* order; at the end of a successful encoding the reader has taken exactly
\* the encoder's bytes, and they parse back to the value.
C14_UnbufferedHandoff ==
    \A i \in Pipes :
        LET st == streams[i] IN
        /\ IsPrefix(Written(st, st.nw), st.got)
        /\ st.writing => st.got \o st.rest = Written(st, st.nw + 1)
        /\ (~st.writing /\ st.werr = NoErr) => st.got = Written(st, st.nw)
        /\ st.closes = 0 =>
              (StreamRead(st, 1).blocks <=>
                  (st.werr = NoErr /\ ~(st.writing /\ st.rest # <<>>)))
        /\ st.werr = EOF =>
              /\ Plan(st).err = NoErr
              /\ st.got = Flat(Plan(st).chunks)
              /\ Unmarshal(st.codec, st.got) = [val |-> st.val, err |-> NoErr]

\* A sending Transport read an XML body in more than one read, to its end.
C14_Witness ==
    /\ transport = "server"
    /\ \E i \in Pipes :
          /\ streams[i].codec = "xml"
          /\ streams[i].werr = EOF
          /\ streams[i].got = <<"<", "a", ">">>
          /\ streams[i].nw = 1
          /\ i = body[1] /\ pc[1] = "respond"

-----------------------------------------------------------------------------
(* Claims about cancellation and the life of the encoder tasks.            *)

\* Request.Do of caller b has begun and not returned.
InFlight(b) == pc[b] \in {"built", "resolved", "rt", "respond", "failing"}

\* The context is cancelled during a Request.Do of b with a structured body.
CancelledInFlight(b) == cancelled /\ InFlight(b) /\ body[b] \in Pipes

\* The encoder task of the body of b has ended.
EncoderEnded(b) == body[b] \in Pipes /\ streams[body[b]].ppc = "done"

\* C15, as stated: when the context is cancelled during a Request.Do with a
\* structured body, Do eventually returns with an error and the encoder
\* task eventually ends.
C15_CancelFailsDo ==
    CancelledInFlight(1) ~>
        (pc[1] = "done" /\ ret[1].err # NoErr /\ EncoderEnded(1))

\* C15, amended: when the context is cancelled during a Request.Do with a
\* structured body, Do eventually returns, and it returns either an error
\* and no response or, from a stub that ignores the context or when the
\* response came first, a response and no error; with a sending Transport,
\* which closes the request body, before or after Do returns, the encoder
\* task eventually ends, and after the context's error it has ended on a
\* failed write or after its last write.
C15_CancelEndsDo ==
    /\ CancelledInFlight(1) ~> (pc[1] = "done")
    /\ (CancelledInFlight(1) /\ transport = "server") ~> EncoderEnded(1)
    /\ [](pc[1] = "done" => (ret[1].resp <=> ret[1].err = NoErr))
    /\ []((EncoderEnded(1) /\ ret[1].err = Wrap("Post", ErrCanceled)) =>
             /\ streams[body[1]].closes > 0 \/ streams[body[1]].closing
             /\ streams[body[1]].werr \in
                    {ErrClosedPipe, EOF, Plan(streams[body[1]]).err})

\* The context was cancelled while the Transport was sending the body: Do
\* returned the context's error and the encoder's pending write failed.
C15_Witness ==
    /\ cancelled
    /\ pc[1] = "done"
    /\ ret[1].err = Wrap("Post", ErrCanceled)
    /\ EncoderEnded(1)
    /\ streams[body[1]].werr = ErrClosedPipe
    /\ streams[body[1]].got = <<"{", "a">>

\* The structured-body calls made on builder b.
StructuredCalls(b) ==
    {k \in 1..Len(hlog[b]) : hlog[b][k].call \in StructuredSetters}

\* Caller b sent twice with the same structured body, set by no call in
\* between, and the whole output of its encoder had been taken when the
\* second request was handed to the Transport.
ResentConsumed(b) ==
    /\ Len(sent[b]) >= 2
    /\ sent[b][2].body = sent[b][1].body
    /\ sent[b][2].body \in Pipes
    /\ sent[b][2].got = Flat(Plan(streams[sent[b][2].body]).chunks)

\* C16: a second Do with the same structured body, after the first send
\* consumed it, fails or sends a body that delivers no bytes: no read of
\* the stream yields a byte, none of its bytes is delivered again, and the
\* call returns an error unless the Transport is a stub that reads no
\* request body (the one that hands the body back unread or the one that
\* answers with a fixed body) or a sending Transport that met the end of
\* the stream at once, the body of the failed first send not yet closed;
\* Do starts no encoder task: there is one pipe for each structured-body
\* call.
C16_SecondSendHasNoBody ==
    \A b \in Builders :
        /\ ResentConsumed(b) =>
              LET st == streams[sent[b][2].body] IN
              /\ st.got = sent[b][2].got
              /\ \A n \in 1..MaxRead : StreamRead(st, n).bytes = <<>>
              /\ st.chunks = <<>> /\ st.rest = <<>>
              /\ (pc[b] = "done" /\ Len(sent[b]) = 2) =>
                    \/ ret[b].err # NoErr
                    \/ transport = "echo" /\ ~viaWr[b] /\ ret[b].raw = <<>>
                    \/ transport = "mock"
                    \/ transport = "server" /\ st.werr = EOF
        /\ (b = 1) => Cardinality(Pipes) = Cardinality(StructuredCalls(b))

\* The second send of a JSON body that a sending Transport had read to its
\* end and closed failed on the closed pipe.
C16_Witness ==
    /\ ResentConsumed(1)
    /\ transport = "server"
    /\ Len(sent[1]) = 2
    /\ sent[1][2].got = <<"{", "a", "}", "\n">>
    /\ pc[1] = "done"
    /\ ret[1].err = Wrap("Post", ErrClosedPipe)

-----------------------------------------------------------------------------
(* Claims about a Do call that fails at request construction.              *)

\* Request.Do of caller b returned the construction error.
ConstructionFailed(b) == pc[b] = "done" /\ ret[b].err = ErrConstruct

\* C17: a Request.Do that fails at request construction returns the
\* construction error from its first step, before the client is resolved:
\* the step leaves the client's Timeout as it is, override or not, and the
\* call hands nothing to a Transport; a later change of the Timeout is the
\* work of another caller.
C17_ConstructionFailureFirst ==
    [][\A b \in Builders :
         /\ ConstructionFailed(b)' =>
               /\ sent'[b] = <<>> /\ sendTimeout'[b] = <<>>
               /\ ret'[b] = [NoRet EXCEPT !.err = ErrConstruct]
               /\ cret'[b] = [resp |-> FALSE, err |-> NoErr]
         /\ (~ConstructionFailed(b) /\ ConstructionFailed(b)') =>
               /\ pc[b] = "cfg"
               /\ clientTimeout' = clientTimeout
               /\ twrites' = twrites
         /\ (ConstructionFailed(b) /\ clientTimeout' # clientTimeout) =>
               \E c \in Builders \ {b} : pc[c] = "built" /\ pc'[c] = "resolved"]_vars

\* A builder with an override failed at construction; no override was ever
\* written to the client.
C17_Witness ==
    \E b \in Builders :
        /\ ConstructionFailed(b)
        /\ timeout[b] = <<20>>
        /\ twrites = <<>>
        /\ clientTimeout = ClientOwnTimeout
        /\ \A c \in Builders : pc[c] = "done"

-----------------------------------------------------------------------------
(* Claim about the end of the encoder tasks.                               *)

\* C18: every encoder task that a WithJSONBody or WithXMLBody call started
\* eventually ends, whatever the caller does with the builder afterwards:
\* sends the body, replaces it, fails at construction, or never calls Do.
C18_EncodersTerminate ==
    \A i \in 1..MaxSetup :
        (i \in Pipes) ~> (i \in Pipes /\ streams[i].ppc = "done")

====
